---- MODULE Spec2Model ----
(***************************************************************************)
(* The Cloudflare-Worker fetch handler of the weather MCP server           *)
(* (build/index.js): JSON-RPC dispatch, the two weather tools and their    *)
(* calls to the NWS API.                                                   *)
(*                                                                         *)
(* JavaScript values are tagged records; a property that is missing reads  *)
(* as Undef, exactly as in JavaScript, and JSON.stringify leaves out a     *)
(* member whose value is Undef.  A template literal `a${x}b` is the        *)
(* sequence of its parts <<Lit("a"), x, Lit("b")>>.                        *)
(***************************************************************************)
EXTENDS Integers, Sequences, FiniteSets, TLC

\* ------------------------------------------------------------ bounds
\* Longest features / periods list the external API returns in the model.
MaxItems == 2
\* Number of request slots the host transport serves side by side.
MaxInFlight == 2

\* ------------------------------------------------------------ JS values
Undef == [t |-> "undefined"]
JNull == [t |-> "null"]
Num(n) == [t |-> "number", n |-> n]
\* an opaque string (method names, ids, messages, literal text)
Lit(s) == [t |-> "string", s |-> s]
\* a string whose characters matter (the state code)
Chars(cs) == [t |-> "string", chars |-> cs]
Arr(items) == [t |-> "array", items |-> items]

\* ToBoolean of a value, as `!x`, `x || y` and `x && y` apply it.
Truthy(v) ==
    CASE v.t = "undefined" -> FALSE
      [] v.t = "null" -> FALSE
      [] v.t = "number" -> v.n # 0
      [] v.t = "string" ->
            IF "chars" \in DOMAIN v THEN v.chars # <<>> ELSE v.s # ""
      [] OTHER -> TRUE

\* x || y
OrElse(x, y) == IF Truthy(x) THEN x ELSE y

\* o.k for a value o that is neither null nor undefined: a missing property,
\* or a property of a primitive, reads as undefined.
Prop(o, k) == IF o.t = "object" /\ k \in DOMAIN o THEN o[k] ELSE Undef

\* String.prototype.toUpperCase on the characters of the state code.
UpperChar(c) ==
    CASE c = "a" -> "A" [] c = "c" -> "C" [] c = "l" -> "L"
      [] c = "n" -> "N" [] c = "y" -> "Y" [] c = "z" -> "Z"
      [] OTHER -> c

\* Variant of toUpperCase that leaves the state code as it was sent.
toUpperCaseOmitted(str) == str

toUpperCase(str) == Chars([i \in 1..Len(str.chars) |-> UpperChar(str.chars[i])])

\* Number.prototype.toFixed(4): the number rendered as a string with four
\* decimal digits (the model's numbers are whole).
toFixed4(num) == [t |-> "string", whole |-> num.n, decimals |-> "0000"]

\* ------------------------------------------------------------ constants
NWS_API_BASE == Lit("https://api.weather.gov")
USER_AGENT == Lit("weather-app/1.0")
EmptyObject == [t |-> "object"]

\* ------------------------------------------------------------ texts
\* Array.prototype.join over a list of texts (each a sequence of parts).
RECURSIVE Join(_, _)
Join(texts, sep) ==
    IF texts = <<>> THEN <<>>
    ELSE IF Len(texts) = 1 THEN texts[1]
    ELSE texts[1] \o <<sep>> \o Join(Tail(texts), sep)

\* A tool result holding one text Content Block.
TextResult(text) ==
    [t |-> "object", content |-> <<[type |-> "text", text |-> text]>>]

\* An evaluation either yields a value or throws an Error with a message.
Value(v) == [threw |-> FALSE, v |-> v]
Throw(msg) == [threw |-> TRUE, error |-> [t |-> "error", message |-> Lit(msg)]]

\* ------------------------------------------------------------ responses
NoBody == [kind |-> "none"]
HtmlBody == [kind |-> "html"]
\* JSON.stringify of an envelope object: a member that is Undef is left out.
JsonBody(env) == [kind |-> "json", env |-> env]

NoResponse == [sent |-> FALSE]
Response(status, body) == [sent |-> TRUE, status |-> status, body |-> body]

\* Variant of SuccessResponse that treats a request without id as a notification
\* and answers it with no payload.
SuccessResponseSilentWithoutId(result, id) ==
    IF id \in {Undef, JNull}
    THEN Response(204, NoBody)
    ELSE Response(200, JsonBody([jsonrpc |-> "2.0", result |-> result,
                                 error |-> Undef, id |-> id]))

\* new Response(JSON.stringify({jsonrpc, result, id}), {headers}): status 200.
SuccessResponse(result, id) ==
    Response(200, JsonBody([jsonrpc |-> "2.0", result |-> result,
                            error |-> Undef, id |-> id]))

\* Variant of createErrorResponse that never adds the data member.
createErrorResponseWithoutData(code, message, id, data) ==
    Response(200, JsonBody([jsonrpc |-> "2.0", result |-> Undef,
                            error |-> [code |-> code, message |-> message, data |-> Undef],
                            id |-> id]))

\* `...(data && { data })` adds the data member only when data is truthy.
createErrorResponse(code, message, id, data) ==
    Response(200, JsonBody([jsonrpc |-> "2.0", result |-> Undef,
                            error |-> [code |-> code, message |-> message,
                                       data |-> IF Truthy(data) THEN data ELSE Undef],
                            id |-> id]))

\* The catch clause of the handler:
\* error instanceof Error ? error.message : String(error); the id passed is null.
catchClause(error) ==
    createErrorResponse(-32603, <<Lit("Internal error")>>, JNull,
                        IF error.t = "error" THEN error.message ELSE error)

\* The CORS preflight answer.
OptionsResponse == Response(200, NoBody)
\* The browser help page.
GetResponse == Response(200, HtmlBody)
\* Variant of NotPostResponse that reflects the error in the HTTP status.
NotPostResponse405 ==
    Response(405, JsonBody([jsonrpc |-> "2.0", result |-> Undef,
        error |-> [code |-> -32601,
                   message |-> <<Lit("Method not found - This endpoint only accepts POST requests with JSON-RPC 2.0 format")>>,
                   data |-> Undef],
        id |-> JNull]))

\* Any other verb than POST.
NotPostResponse ==
    Response(200, JsonBody([jsonrpc |-> "2.0", result |-> Undef,
        error |-> [code |-> -32601,
                   message |-> <<Lit("Method not found - This endpoint only accepts POST requests with JSON-RPC 2.0 format")>>,
                   data |-> Undef],
        id |-> JNull]))
\* Variant of NotificationResponse that answers with an empty-object result.
NotificationResponseEmptyResult ==
    Response(200, JsonBody([jsonrpc |-> "2.0", result |-> EmptyObject,
                            error |-> Undef, id |-> Undef]))

\* case "notifications/initialized"
NotificationResponse == Response(204, NoBody)

\* ------------------------------------------------------------ NWS API
\* What the outbound fetch of makeNWSRequest can meet.
NetworkError == [kind |-> "network_error"]
HttpError == [kind |-> "http_error"]
BadBody == [kind |-> "bad_body"]
Json(doc) == [kind |-> "json", doc |-> doc]

\* makeNWSRequest: a rejected fetch, a response that is not ok and a body that
\* is not JSON are all caught and give null; otherwise the parsed document.
makeNWSRequest(outcome) ==
    IF outcome.kind = "json" THEN outcome.doc ELSE JNull

\* All sequences over S of length 0..n.
RECURSIVE SeqsUpTo(_, _)
SeqsUpTo(S, n) ==
    IF n = 0 THEN {<<>>}
    ELSE LET shorter == SeqsUpTo(S, n - 1)
         IN  shorter \cup {Append(q, x) : q \in {r \in shorter : Len(r) = n - 1}, x \in S}

\* Alert features the API may return: complete, sparse, without properties, null.
FullFeature ==
    [t |-> "object",
     properties |-> [t |-> "object", event |-> Lit("Flood Warning"),
                     areaDesc |-> Lit("Kings County"), severity |-> Lit("Severe"),
                     status |-> Lit("Actual"), headline |-> Lit("Flood Warning issued")]]
SparseFeature == [t |-> "object", properties |-> [t |-> "object", event |-> Lit("Heat Advisory")]]
BareFeature == [t |-> "object"]
Features == {FullFeature, SparseFeature, BareFeature, JNull}

AlertDocs ==
    {JNull, EmptyObject, [t |-> "object", features |-> EmptyObject]}
    \cup {[t |-> "object", features |-> Arr(q)] : q \in SeqsUpTo(Features, MaxItems)}

ForecastUrl == Lit("https://api.weather.gov/gridpoints/MTR/85,105/forecast")
PointsDocs ==
    {JNull, EmptyObject, [t |-> "object", properties |-> JNull],
     [t |-> "object", properties |-> EmptyObject],
     [t |-> "object", properties |-> [t |-> "object", forecast |-> Lit("")]],
     [t |-> "object", properties |-> [t |-> "object", forecast |-> ForecastUrl]]}

FullPeriod ==
    [t |-> "object", name |-> Lit("Tonight"), temperature |-> Num(54),
     temperatureUnit |-> Lit("F"), windSpeed |-> Lit("5 mph"),
     windDirection |-> Lit("W"), shortForecast |-> Lit("Clear")]
SparsePeriod == [t |-> "object", name |-> Lit("Monday"), temperature |-> Num(0)]
Periods == {FullPeriod, SparsePeriod, JNull}

ForecastDocs ==
    {JNull, EmptyObject, [t |-> "object", properties |-> EmptyObject],
     [t |-> "object", properties |-> [t |-> "object", periods |-> EmptyObject]]}
    \cup {[t |-> "object", properties |-> [t |-> "object", periods |-> Arr(q)]] :
            q \in SeqsUpTo(Periods, MaxItems)}

Failures == {NetworkError, HttpError, BadBody}
AlertOutcomes == Failures \cup {Json(d) : d \in AlertDocs}
PointsOutcomes == Failures \cup {Json(d) : d \in PointsDocs}
ForecastOutcomes == Failures \cup {Json(d) : d \in ForecastDocs}

\* o?.k
OptProp(o, k) == IF o.t \in {"null", "undefined"} THEN Undef ELSE Prop(o, k)

\* ------------------------------------------------------------ get_alerts
\* formatAlert: reading feature.properties throws on a null feature, reading
\* props.event throws when the feature has no properties.
formatAlert(feature) ==
    IF feature.t \in {"null", "undefined"}
    THEN Throw("Cannot read properties of null (reading 'properties')")
    ELSE LET props == Prop(feature, "properties")
         IN  IF props.t \in {"null", "undefined"}
             THEN Throw("Cannot read properties of undefined (reading 'event')")
             ELSE Value(<<Lit("Event: "), OrElse(Prop(props, "event"), Lit("Unknown")), Lit("\n"),
                          Lit("Area: "), OrElse(Prop(props, "areaDesc"), Lit("Unknown")), Lit("\n"),
                          Lit("Severity: "), OrElse(Prop(props, "severity"), Lit("Unknown")), Lit("\n"),
                          Lit("Status: "), OrElse(Prop(props, "status"), Lit("Unknown")), Lit("\n"),
                          Lit("Headline: "), OrElse(Prop(props, "headline"), Lit("No headline")), Lit("\n"),
                          Lit("---")>>)

\* array.map(f), given f's outcome on each element in order: the first element
\* on which f throws ends the map with that error.
MapOutcome(outcomes) ==
    IF \E i \in 1..Len(outcomes) : outcomes[i].threw
    THEN LET first == CHOOSE i \in 1..Len(outcomes) :
                          /\ outcomes[i].threw
                          /\ \A j \in 1..(i - 1) : ~outcomes[j].threw
         IN  outcomes[first]
    ELSE Value([i \in 1..Len(outcomes) |-> outcomes[i].v])

alertsUrl(stateCode) == <<NWS_API_BASE, Lit("/alerts?area="), stateCode>>

\* The get_alerts branch after makeNWSRequest has returned alertsData.
alertsResult(stateCode, alertsData) ==
    IF ~Truthy(alertsData)
    THEN Value(TextResult(<<Lit("Failed to retrieve alerts data")>>))
    ELSE LET features == OrElse(Prop(alertsData, "features"), Arr(<<>>))
         IN  IF features.t # "array"
             THEN Throw("features.map is not a function")
             ELSE IF Len(features.items) = 0
             THEN Value(TextResult(<<Lit("No active alerts for "), stateCode>>))
             ELSE LET formattedAlerts == MapOutcome([i \in 1..Len(features.items) |-> formatAlert(features.items[i])])
                  IN  IF formattedAlerts.threw THEN formattedAlerts
                      ELSE Value(TextResult(
                               <<Lit("Active alerts for "), stateCode, Lit(":\n\n")>>
                               \o Join(formattedAlerts.v, Lit("\n"))))

\* ------------------------------------------------------------ get_forecast
pointsUrl(latitude, longitude) ==
    <<NWS_API_BASE, Lit("/points/"), toFixed4(latitude), Lit(","), toFixed4(longitude)>>

\* One forecast period rendered; reading period.name throws on a null period.
formatPeriod(period) ==
    IF period.t \in {"null", "undefined"}
    THEN Throw("Cannot read properties of null (reading 'name')")
    ELSE Value(<<OrElse(Prop(period, "name"), Lit("Unknown")), Lit(":"), Lit("\n"),
                 Lit("Temperature: "), OrElse(Prop(period, "temperature"), Lit("Unknown")),
                 Lit("°"), OrElse(Prop(period, "temperatureUnit"), Lit("F")), Lit("\n"),
                 Lit("Wind: "), OrElse(Prop(period, "windSpeed"), Lit("Unknown")), Lit(" "),
                 OrElse(Prop(period, "windDirection"), Lit("")), Lit("\n"),
                 OrElse(Prop(period, "shortForecast"), Lit("No forecast available")), Lit("\n"),
                 Lit("---")>>)

\* pointsData.properties?.forecast
forecastUrlOf(pointsData) == OptProp(Prop(pointsData, "properties"), "forecast")

\* The get_forecast branch when the points lookup gave no data.
pointsFailedResult(latitude, longitude) ==
    TextResult(<<Lit("Failed to retrieve grid point data for coordinates: "),
                 latitude, Lit(", "), longitude,
                 Lit(". This location may not be supported by the NWS API (only US locations are supported).")>>)

noForecastUrlResult == TextResult(<<Lit("Failed to get forecast URL from grid point data")>>)

\* The get_forecast branch after the second makeNWSRequest returned forecastData.
forecastResult(latitude, longitude, forecastData) ==
    IF ~Truthy(forecastData)
    THEN Value(TextResult(<<Lit("Failed to retrieve forecast data")>>))
    ELSE LET periods == OrElse(OptProp(Prop(forecastData, "properties"), "periods"), Arr(<<>>))
         IN  IF periods.t # "array"
             THEN Throw("periods.map is not a function")
             ELSE IF Len(periods.items) = 0
             THEN Value(TextResult(<<Lit("No forecast periods available")>>))
             ELSE LET formattedForecast == MapOutcome([i \in 1..Len(periods.items) |-> formatPeriod(periods.items[i])])
                  IN  IF formattedForecast.threw THEN formattedForecast
                      ELSE Value(TextResult(
                               <<Lit("Forecast for "), latitude, Lit(", "), longitude, Lit(":\n\n")>>
                               \o Join(formattedForecast.v, Lit("\n"))))

\* ------------------------------------------------------------ catalog
\* The result of tools/list.
toolsList ==
    [t |-> "object",
     tools |-> <<
       [name |-> "get_alerts",
        description |-> "Get weather alerts for a state",
        inputSchema |->
          [type |-> "object",
           properties |-> [state |-> [type |-> "string", minLength |-> 2, maxLength |-> 2,
                                      description |-> "Two-letter state code (e.g. CA, NY)"]],
           required |-> {"state"}]],
       [name |-> "get_forecast",
        description |-> "Get weather forecast for a location",
        inputSchema |->
          [type |-> "object",
           properties |-> [latitude |-> [type |-> "number", minimum |-> -90, maximum |-> 90,
                                         description |-> "Latitude of the location"],
                           longitude |-> [type |-> "number", minimum |-> -180, maximum |-> 180,
                                          description |-> "Longitude of the location"]],
           required |-> {"latitude", "longitude"}]] >>]

initializeResult ==
    [t |-> "object", protocolVersion |-> "2024-11-05",
     capabilities |-> {"tools", "resources", "prompts", "logging"},
     serverInfo |-> [name |-> "weather", version |-> "1.0.0"]]
pingResult == EmptyObject
resourcesListResult == [t |-> "object", resources |-> <<>>]
promptsListResult == [t |-> "object", prompts |-> <<>>]

\* ------------------------------------------------------------ dispatch
\* How far the handler got: it has returned a response, or it is suspended in
\* makeNWSRequest on url.  caught is the error its catch clause received.
NoUrl == <<>>
NoError == Undef
Returned(response) ==
    [pc |-> "responded", resp |-> response, url |-> NoUrl, caught |-> NoError]
Awaiting(where, url) ==
    [pc |-> where, resp |-> NoResponse, url |-> url, caught |-> NoError]
Caught(thrown) ==
    [pc |-> "responded", resp |-> catchClause(thrown.error), url |-> NoUrl,
     caught |-> thrown.error]
\* result = ...; break; and the successful response after the switch.
Finish(outcome, id) ==
    IF outcome.threw THEN Caught(outcome) ELSE Returned(SuccessResponse(outcome.v, id))

\* if (!args.state)
stateMissing(args) == ~Truthy(Prop(args, "state"))

\* case "tools/call", params.name === "get_alerts", up to the external call.
callGetAlerts(params, id) ==
    LET args == OrElse(Prop(params, "arguments"), EmptyObject)
        state == Prop(args, "state")
    IN  IF stateMissing(args)
        THEN Returned(createErrorResponse(-32602,
                 <<Lit("Missing required parameter: state")>>, id, Undef))
        ELSE IF state.t # "string"
        THEN Caught(Throw("state.toUpperCase is not a function"))
        ELSE Awaiting("await_alerts", alertsUrl(toUpperCase(state)))

\* if (args.latitude === undefined || args.longitude === undefined)
coordsMissing(args) ==
    Prop(args, "latitude") = Undef \/ Prop(args, "longitude") = Undef

\* x.toFixed(4) on a value that is no number throws a TypeError.
toFixedThrows(x) == x.t # "number"

\* case "tools/call", params.name === "get_forecast", up to the points lookup.
callGetForecast(params, id) ==
    LET args == OrElse(Prop(params, "arguments"), EmptyObject)
        latitude == Prop(args, "latitude")
        longitude == Prop(args, "longitude")
    IN  IF coordsMissing(args)
        THEN Returned(createErrorResponse(-32602,
                 <<Lit("Missing required parameters: latitude and/or longitude")>>, id, Undef))
        ELSE IF toFixedThrows(latitude)
        THEN Caught(Throw(IF latitude.t = "null"
                          THEN "Cannot read properties of null (reading 'toFixed')"
                          ELSE "latitude.toFixed is not a function"))
        ELSE IF toFixedThrows(longitude)
        THEN Caught(Throw(IF longitude.t = "null"
                          THEN "Cannot read properties of null (reading 'toFixed')"
                          ELSE "longitude.toFixed is not a function"))
        ELSE Awaiting("await_points", pointsUrl(latitude, longitude))

\* Variant of nameMissing that checks params only and forgets params.name.
nameMissingParamsOnly(params) == ~Truthy(params)

\* if (!params || !params.name)
nameMissing(params) == ~Truthy(params) \/ ~Truthy(Prop(params, "name"))

\* case "tools/call"
toolsCall(params, id) ==
    IF nameMissing(params)
    THEN Returned(createErrorResponse(-32602, <<Lit("Invalid params")>>, id, Undef))
    ELSE IF Prop(params, "name") = Lit("get_alerts") THEN callGetAlerts(params, id)
    ELSE IF Prop(params, "name") = Lit("get_forecast") THEN callGetForecast(params, id)
    ELSE Returned(createErrorResponse(-32601,
             <<Lit("Unknown tool: "), Prop(params, "name")>>, id, Undef))

\* Variant of methodNotFound that drops the request id, as the catch clause does.
methodNotFoundNullId(method, id) ==
    createErrorResponse(-32601, <<Lit("Method not found: "), method>>, JNull, Undef)

\* default: of the switch
methodNotFound(method, id) ==
    createErrorResponse(-32601, <<Lit("Method not found: "), method>>, id, Undef)

\* switch (method)
dispatch(method, params, id) ==
    CASE method = Lit("initialize") -> Returned(SuccessResponse(initializeResult, id))
      [] method = Lit("notifications/initialized") -> Returned(NotificationResponse)
      [] method = Lit("ping") -> Returned(SuccessResponse(pingResult, id))
      [] method = Lit("tools/list") -> Returned(SuccessResponse(toolsList, id))
      [] method = Lit("resources/list") -> Returned(SuccessResponse(resourcesListResult, id))
      [] method = Lit("prompts/list") -> Returned(SuccessResponse(promptsListResult, id))
      [] method = Lit("tools/call") -> toolsCall(params, id)
      [] OTHER -> Returned(methodNotFound(method, id))

\* await request.json() and the destructuring of body.
parseBody(body) ==
    IF ~body.parses THEN Throw("Unexpected token in JSON")
    ELSE IF body.value.t \in {"null", "undefined"}
    THEN Throw("Cannot destructure property 'method' of 'body' as it is null.")
    ELSE Value(body.value)

\* fetch(request), up to its first external call or its response.
fetch(request) ==
    IF request.verb = "OPTIONS" THEN Returned(OptionsResponse)
    ELSE IF request.verb = "GET" THEN Returned(GetResponse)
    ELSE IF request.verb # "POST" THEN Returned(NotPostResponse)
    ELSE LET parsed == parseBody(request.body)
         IN  IF parsed.threw THEN Caught(parsed)
             ELSE dispatch(Prop(parsed.v, "method"), Prop(parsed.v, "params"),
                           Prop(parsed.v, "id"))

\* ------------------------------------------------------------ inputs
Verbs == {"OPTIONS", "GET", "POST", "PUT", "DELETE"}
Ids == {Undef, JNull, Num(7), Lit("req-1")}
KnownMethods ==
    {Lit("initialize"), Lit("notifications/initialized"), Lit("ping"), Lit("tools/list"),
     Lit("resources/list"), Lit("prompts/list"), Lit("tools/call")}
Methods == KnownMethods \cup {Undef, Lit("tools/delete"), Num(5)}

States ==
    {Undef, JNull, Num(0), Num(42), Chars(<<>>), Chars(<<"c">>), Chars(<<"c", "a">>),
     Chars(<<"N", "Y">>), Chars(<<"z", "Z">>), Chars(<<"c", "a", "l">>)}
Latitudes == {Undef, JNull, Lit("45"), Num(-91), Num(-90), Num(45), Num(90), Num(91)}
Longitudes == {Undef, Lit("-122"), Num(-181), Num(-180), Num(-122), Num(180), Num(181)}

AlertsArguments ==
    {Undef} \cup {[t |-> "object", state |-> st] : st \in States}
ForecastArguments ==
    {Undef} \cup {[t |-> "object", latitude |-> la, longitude |-> lo] :
                    la \in Latitudes, lo \in Longitudes}
Params ==
    {Undef, JNull, EmptyObject, Lit("get_alerts"),
     [t |-> "object", arguments |-> [t |-> "object", state |-> Chars(<<"c", "a">>)]],
     [t |-> "object", name |-> Lit("get_weather"), arguments |-> Undef]}
    \cup {[t |-> "object", name |-> Lit("get_alerts"), arguments |-> a] : a \in AlertsArguments}
    \cup {[t |-> "object", name |-> Lit("get_forecast"), arguments |-> a] : a \in ForecastArguments}

Envelope(method, params, id) ==
    [t |-> "object", method |-> method, params |-> params, id |-> id]
Envelopes ==
    {Envelope(m, Undef, i) : m \in Methods, i \in Ids}
    \cup {Envelope(Lit("tools/call"), p, i) : p \in Params, i \in Ids}

Unparseable == [parses |-> FALSE]
Parsed(v) == [parses |-> TRUE, value |-> v]
Bodies == {Unparseable, Parsed(JNull), Parsed(Num(5))} \cup {Parsed(e) : e \in Envelopes}

Requests ==
    {[verb |-> v, body |-> Unparseable] : v \in Verbs \ {"POST"}}
    \cup {[verb |-> "POST", body |-> b] : b \in Bodies}
NoRequest == [verb |-> "none", body |-> Unparseable]

\* ------------------------------------------------------------ state
Slots == 1..MaxInFlight
\* The slot a transport that serves one request at a time uses.
SeqSlots == {1}

VARIABLES
    pc,          \* per slot: "idle", "await_alerts", "await_points", "await_forecast", "responded"
    req,         \* per slot: the request being handled
    outstanding, \* per slot: the URLs of the external calls issued and not yet completed
    calls,       \* per slot: the URLs of the external calls issued for the request, in order
    replies,     \* per slot: what the request's external calls met, in order
    resp,        \* per slot: the response returned to the transport
    caught       \* per slot: the error the handler's catch clause received

vars == <<pc, req, outstanding, calls, replies, resp, caught>>

Init ==
    /\ pc = [s \in Slots |-> "idle"]
    /\ req = [s \in Slots |-> NoRequest]
    /\ outstanding = [s \in Slots |-> {}]
    /\ calls = [s \in Slots |-> <<>>]
    /\ replies = [s \in Slots |-> <<>>]
    /\ resp = [s \in Slots |-> NoResponse]
    /\ caught = [s \in Slots |-> NoError]

\* The handler of slot s moves on to progress p: it has returned, or it has
\* issued the external call p.url and is suspended on it.
Advance(s, p) ==
    /\ pc' = [pc EXCEPT ![s] = p.pc]
    /\ resp' = [resp EXCEPT ![s] = p.resp]
    /\ caught' = [caught EXCEPT ![s] = p.caught]
    /\ outstanding' = [outstanding EXCEPT ![s] = IF p.url = NoUrl THEN {} ELSE {p.url}]
    /\ calls' = [calls EXCEPT ![s] = IF p.url = NoUrl THEN @ ELSE Append(@, p.url)]

\* A request arrives and the handler runs to its response or first external call.
Receive(s, request) ==
    /\ pc[s] = "idle"
    /\ req' = [req EXCEPT ![s] = request]
    /\ Advance(s, fetch(request))
    /\ UNCHANGED replies

\* The request's own fields, as the handler destructured them.
bodyOf(request) == request.body.value
methodOf(request) == Prop(bodyOf(request), "method")
paramsOf(request) == Prop(bodyOf(request), "params")
idOf(request) == Prop(bodyOf(request), "id")
argsOf(request) == OrElse(Prop(paramsOf(request), "arguments"), EmptyObject)

\* Variant of AlertsReply in which stateCode lives in a variable that the
\* invocations in flight share: the branch may resume with the state code of
\* another request that is waiting for its alerts.
AlertsReplySharedStateCode(s, outcome) ==
    /\ pc[s] = "await_alerts"
    /\ \E o \in Slots :
           /\ pc[o] = "await_alerts"
           /\ Advance(s, Finish(alertsResult(toUpperCase(Prop(argsOf(req[o]), "state")),
                                             makeNWSRequest(outcome)),
                                idOf(req[s])))
    /\ replies' = [replies EXCEPT ![s] = Append(@, outcome)]
    /\ UNCHANGED req

\* The alerts call completes and the get_alerts branch runs to its response.
AlertsReply(s, outcome) ==
    /\ pc[s] = "await_alerts"
    /\ Advance(s, Finish(alertsResult(toUpperCase(Prop(argsOf(req[s]), "state")),
                                      makeNWSRequest(outcome)),
                         idOf(req[s])))
    /\ replies' = [replies EXCEPT ![s] = Append(@, outcome)]
    /\ UNCHANGED req

\* Variant of pointsContinue that fetches the forecast without testing that the
\* points document holds a forecast URL.
pointsContinueUnchecked(latitude, longitude, pointsData, id) ==
    IF ~Truthy(pointsData)
    THEN Returned(SuccessResponse(pointsFailedResult(latitude, longitude), id))
    ELSE Awaiting("await_forecast", <<forecastUrlOf(pointsData)>>)

\* The points lookup completes; the handler answers or issues the forecast call.
pointsContinue(latitude, longitude, pointsData, id) ==
    IF ~Truthy(pointsData)
    THEN Returned(SuccessResponse(pointsFailedResult(latitude, longitude), id))
    ELSE IF ~Truthy(forecastUrlOf(pointsData))
    THEN Returned(SuccessResponse(noForecastUrlResult, id))
    ELSE Awaiting("await_forecast", <<forecastUrlOf(pointsData)>>)

PointsReply(s, outcome) ==
    /\ pc[s] = "await_points"
    /\ Advance(s, pointsContinue(Prop(argsOf(req[s]), "latitude"),
                                 Prop(argsOf(req[s]), "longitude"),
                                 makeNWSRequest(outcome), idOf(req[s])))
    /\ replies' = [replies EXCEPT ![s] = Append(@, outcome)]
    /\ UNCHANGED req

\* The forecast fetch completes and the get_forecast branch runs to its response.
ForecastReply(s, outcome) ==
    /\ pc[s] = "await_forecast"
    /\ Advance(s, Finish(forecastResult(Prop(argsOf(req[s]), "latitude"),
                                        Prop(argsOf(req[s]), "longitude"),
                                        makeNWSRequest(outcome)),
                         idOf(req[s])))
    /\ replies' = [replies EXCEPT ![s] = Append(@, outcome)]
    /\ UNCHANGED req

\* The transport sends the response; nothing of the request is kept.
Deliver(s) ==
    /\ pc[s] = "responded"
    /\ pc' = [pc EXCEPT ![s] = "idle"]
    /\ req' = [req EXCEPT ![s] = NoRequest]
    /\ resp' = [resp EXCEPT ![s] = NoResponse]
    /\ caught' = [caught EXCEPT ![s] = NoError]
    /\ outstanding' = [outstanding EXCEPT ![s] = {}]
    /\ calls' = [calls EXCEPT ![s] = <<>>]
    /\ replies' = [replies EXCEPT ![s] = <<>>]

Next ==
    \/ \E s \in SeqSlots, request \in Requests : Receive(s, request)
    \/ \E s \in SeqSlots, outcome \in AlertOutcomes : AlertsReply(s, outcome)
    \/ \E s \in SeqSlots, outcome \in PointsOutcomes : PointsReply(s, outcome)
    \/ \E s \in SeqSlots, outcome \in ForecastOutcomes : ForecastReply(s, outcome)
    \/ \E s \in SeqSlots : Deliver(s)

Spec == Init /\ [][Next]_vars

\* ------------------------------------------------------------ requests in flight
\* The host transport may run several invocations of fetch side by side, each
\* suspended at its own external calls.  A smaller choice of requests and API
\* outcomes keeps the interleavings of MaxInFlight slots explorable.
InFlightRequests ==
    {[verb |-> "POST", body |-> Parsed(Envelope(Lit("tools/list"), Undef, Num(7)))],
     [verb |-> "POST", body |-> Parsed(Envelope(Lit("ping"), Undef, Lit("req-1")))],
     [verb |-> "POST", body |-> Parsed(Envelope(Lit("tools/call"),
         [t |-> "object", name |-> Lit("get_alerts"),
          arguments |-> [t |-> "object", state |-> Chars(<<"c", "a">>)]], Num(7)))],
     [verb |-> "POST", body |-> Parsed(Envelope(Lit("tools/call"),
         [t |-> "object", name |-> Lit("get_alerts"),
          arguments |-> [t |-> "object", state |-> Chars(<<"N", "Y">>)]], Num(7)))],
     [verb |-> "POST", body |-> Parsed(Envelope(Lit("tools/call"),
         [t |-> "object", name |-> Lit("get_forecast"),
          arguments |-> [t |-> "object", latitude |-> Num(45), longitude |-> Num(-122)]],
         Lit("req-1")))]}
InFlightAlertOutcomes ==
    {NetworkError, Json([t |-> "object", features |-> Arr(<<>>)]),
     Json([t |-> "object", features |-> Arr(<<FullFeature>>)])}
InFlightPointsOutcomes ==
    {HttpError, Json([t |-> "object", properties |-> EmptyObject]),
     Json([t |-> "object", properties |-> [t |-> "object", forecast |-> ForecastUrl]])}
InFlightForecastOutcomes ==
    {BadBody, Json([t |-> "object", properties |-> [t |-> "object", periods |-> Arr(<<FullPeriod>>)]])}

NextInFlight ==
    \/ \E s \in Slots, request \in InFlightRequests : Receive(s, request)
    \/ \E s \in Slots, outcome \in InFlightAlertOutcomes : AlertsReply(s, outcome)
    \/ \E s \in Slots, outcome \in InFlightPointsOutcomes : PointsReply(s, outcome)
    \/ \E s \in Slots, outcome \in InFlightForecastOutcomes : ForecastReply(s, outcome)
    \/ \E s \in Slots : Deliver(s)

SpecInFlight == Init /\ [][NextInFlight]_vars

\* ------------------------------------------------------------ vocabulary
Responded(s) == pc[s] = "responded"
IsPost(s) == req[s].verb = "POST"
\* The body parsed and could be destructured into method, params and id.
Destructured(s) ==
    /\ IsPost(s)
    /\ req[s].body.parses
    /\ bodyOf(req[s]).t \notin {"null", "undefined"}
HasEnvelope(s) == resp[s].sent /\ resp[s].body.kind = "json"
IsErrorEnvelope(s, code) ==
    /\ HasEnvelope(s)
    /\ resp[s].body.env.result = Undef
    /\ resp[s].body.env.error # Undef
    /\ resp[s].body.env.error.code = code
IsToolCall(s, tool) ==
    /\ Destructured(s)
    /\ methodOf(req[s]) = Lit("tools/call")
    /\ Truthy(paramsOf(req[s]))
    /\ Prop(paramsOf(req[s]), "name") = Lit(tool)

\* JSON-Schema reading of one advertised property schema.
Conforms(p, v) ==
    IF p.type = "string"
    THEN /\ v.t = "string"
         /\ Len(v.chars) >= p.minLength
         /\ Len(v.chars) <= p.maxLength
    ELSE /\ v.t = "number"
         /\ v.n >= p.minimum
         /\ v.n <= p.maximum
\* The arguments satisfy the inputSchema that tools/list advertises for a tool.
ValidAgainst(schema, args) ==
    /\ \A k \in schema.required : Prop(args, k) # Undef
    /\ \A k \in DOMAIN schema.properties :
           Prop(args, k) # Undef => Conforms(schema.properties[k], Prop(args, k))
AdvertisedSchema(tool) ==
    LET i == CHOOSE j \in 1..Len(toolsList.tools) : toolsList.tools[j].name = tool
    IN  toolsList.tools[i].inputSchema
\* The request's tool arguments satisfy the advertised schema of the tool.
ValidArguments(s, tool) == ValidAgainst(AdvertisedSchema(tool), argsOf(req[s]))

\* ------------------------------------------------------------ claims

\* C1: every response envelope to a POST request carries the id of the request
\* unchanged (null, a number or a string), on every path, the internal-error
\* path included.  Stated for requests that carry an id member.
C1_IdRoundTrip ==
    \A s \in Slots :
        (Responded(s) /\ Destructured(s) /\ HasEnvelope(s) /\ idOf(req[s]) # Undef)
            => resp[s].body.env.id = idOf(req[s])

\* C2: a get_alerts call whose state is missing or is not a string of exactly 2
\* characters (the schema tools/list advertises) is answered with error -32602
\* and issues no external call.
C2_AlertsArgumentsChecked ==
    \A s \in Slots :
        (IsToolCall(s, "get_alerts") /\ ~ValidArguments(s, "get_alerts"))
            => /\ calls[s] = <<>>
               /\ Responded(s) => IsErrorEnvelope(s, -32602)

\* C3: a get_forecast call whose latitude or longitude is missing, is no number
\* or lies outside [-90,90] resp. [-180,180] is answered with error -32602 and
\* issues no points lookup.
C3_ForecastArgumentsChecked ==
    \A s \in Slots :
        (IsToolCall(s, "get_forecast") /\ ~ValidArguments(s, "get_forecast"))
            => /\ calls[s] = <<>>
               /\ Responded(s) => IsErrorEnvelope(s, -32602)

\* C4: a get_alerts or get_forecast call with valid arguments is answered with a
\* success envelope holding exactly one text Content Block, whatever the
\* external API returned.
OneTextBlock(result) ==
    /\ result # Undef
    /\ "content" \in DOMAIN result
    /\ Len(result.content) = 1
    /\ result.content[1].type = "text"
C4_DegradationIsSuccess ==
    \A s \in Slots : \A tool \in {"get_alerts", "get_forecast"} :
        (Responded(s) /\ IsToolCall(s, tool) /\ ValidArguments(s, tool))
            => /\ HasEnvelope(s)
               /\ resp[s].body.env.error = Undef
               /\ OneTextBlock(resp[s].body.env.result)

\* C5 (as claimed): a request whose id is absent or null gets no response
\* payload, whatever its method.
C5_NoIdNoPayload ==
    \A s \in Slots :
        (Responded(s) /\ Destructured(s) /\ idOf(req[s]) \in {Undef, JNull})
            => resp[s].body = NoBody

\* C5 (amended): the id does not decide it: a POST request gets no response
\* payload exactly when its method is notifications/initialized; every other
\* POST request, also one whose id is absent or null, gets a response envelope.
C5_PayloadDecidedByMethod ==
    \A s \in Slots :
        (Responded(s) /\ IsPost(s))
            => IF Destructured(s) /\ methodOf(req[s]) = Lit("notifications/initialized")
               THEN resp[s].body = NoBody
               ELSE HasEnvelope(s)
C5_Witness ==
    \E s \in Slots :
        /\ Responded(s) /\ Destructured(s)
        /\ idOf(req[s]) = Undef
        /\ methodOf(req[s]) = Lit("ping")
        /\ HasEnvelope(s)

\* C6: every failure thrown while a POST request is handled ends in a response:
\* an error envelope with code -32603 and message "Internal error" whose data
\* member is present and holds the failure's message.
C6_InternalError ==
    \A s \in Slots :
        caught[s] # NoError
            => /\ Responded(s)
               /\ IsErrorEnvelope(s, -32603)
               /\ resp[s].body.env.error.message = <<Lit("Internal error")>>
               /\ resp[s].body.env.error.data # Undef
               /\ resp[s].body.env.error.data = caught[s].message
C6_Witness ==
    \E s \in Slots :
        /\ Responded(s) /\ IsToolCall(s, "get_alerts")
        /\ caught[s] # NoError
        /\ calls[s] # <<>>

\* C7: a body that is not valid JSON is answered with error -32700 "Parse error".
C7_ParseError ==
    \A s \in Slots :
        (Responded(s) /\ IsPost(s) /\ ~req[s].body.parses)
            => /\ IsErrorEnvelope(s, -32700)
               /\ resp[s].body.env.error.message = <<Lit("Parse error")>>

\* C8: a request whose method is absent or is none of the recognized methods is
\* answered with error -32601, a message naming the method and the id of the
\* request.
C8_MethodNotFound ==
    \A s \in Slots :
        (Responded(s) /\ Destructured(s) /\ methodOf(req[s]) \notin KnownMethods)
            => /\ IsErrorEnvelope(s, -32601)
               /\ resp[s].body.env.error.message =
                      <<Lit("Method not found: "), methodOf(req[s])>>
               /\ resp[s].body.env.id = idOf(req[s])
C8_Witness ==
    \E s \in Slots :
        /\ Responded(s) /\ Destructured(s)
        /\ methodOf(req[s]) = Lit("tools/delete")
        /\ idOf(req[s]) = Num(7)
        /\ IsErrorEnvelope(s, -32601)

\* Every error envelope is sent with HTTP status 200.
ErrorsAreStatus200 ==
    \A s \in Slots :
        (HasEnvelope(s) /\ resp[s].body.env.error # Undef) => resp[s].status = 200

\* C9 (as claimed): every verb other than POST and OPTIONS gets error -32601
\* with HTTP status 200, and every error envelope is sent with status 200.
C9_NonPostRejected ==
    /\ \A s \in Slots :
           (Responded(s) /\ req[s].verb \notin {"POST", "OPTIONS"})
               => IsErrorEnvelope(s, -32601) /\ resp[s].status = 200
    /\ ErrorsAreStatus200

\* C9 (amended): every verb other than POST, OPTIONS and GET gets error -32601
\* with HTTP status 200; GET gets the HTML help page, not an envelope; every
\* error envelope is sent with status 200.
C9_OtherVerbsRejected ==
    /\ \A s \in Slots :
           (Responded(s) /\ req[s].verb \notin {"POST", "OPTIONS", "GET"})
               => IsErrorEnvelope(s, -32601) /\ resp[s].status = 200
    /\ \A s \in Slots :
           (Responded(s) /\ req[s].verb = "GET") => resp[s] = Response(200, HtmlBody)
    /\ ErrorsAreStatus200
C9_Witness ==
    \E s \in Slots :
        /\ Responded(s) /\ req[s].verb = "PUT"
        /\ IsErrorEnvelope(s, -32601)

\* C10: notifications/initialized gets HTTP 204 without any body, and it is the
\* only recognized method that does: each other recognized method gets one
\* envelope that holds either result or error, never both and never neither.
C10_OnlyInitializedIsSilent ==
    \A s \in Slots :
        (Responded(s) /\ Destructured(s) /\ methodOf(req[s]) \in KnownMethods)
            => IF methodOf(req[s]) = Lit("notifications/initialized")
               THEN resp[s] = Response(204, NoBody)
               ELSE /\ HasEnvelope(s)
                    /\ (resp[s].body.env.result # Undef) # (resp[s].body.env.error # Undef)
C10_Witness ==
    \E s \in Slots :
        /\ Responded(s) /\ Destructured(s)
        /\ methodOf(req[s]) = Lit("notifications/initialized")
        /\ idOf(req[s]) = Num(7)
        /\ resp[s].status = 204

\* C11: a tools/call request without params.name (params absent, or name
\* absent) is answered with error -32602 "Invalid params" carrying the id of
\* the request, and no tool is invoked: no external call is issued.
NameAbsent(s) ==
    \/ paramsOf(req[s]) \in {Undef, JNull}
    \/ Prop(paramsOf(req[s]), "name") = Undef
C11_MissingToolName ==
    \A s \in Slots :
        (pc[s] # "idle" /\ Destructured(s) /\ methodOf(req[s]) = Lit("tools/call")
                        /\ NameAbsent(s))
            => /\ Responded(s)
               /\ IsErrorEnvelope(s, -32602)
               /\ resp[s].body.env.error.message = <<Lit("Invalid params")>>
               /\ resp[s].body.env.id = idOf(req[s])
               /\ calls[s] = <<>>
C11_Witness ==
    \E s \in Slots :
        /\ Responded(s) /\ Destructured(s)
        /\ methodOf(req[s]) = Lit("tools/call")
        /\ paramsOf(req[s]).t = "object"
        /\ Prop(paramsOf(req[s]), "name") = Undef
        /\ Prop(paramsOf(req[s]), "arguments") # Undef
        /\ IsErrorEnvelope(s, -32602)

\* The letters of the model's state codes, each lower-case letter paired with
\* its capital.
Capitals == {"A", "C", "L", "N", "Y", "Z"}
CasePairs ==
    {<<"a", "A">>, <<"c", "C">>, <<"l", "L">>, <<"n", "N">>, <<"y", "Y">>, <<"z", "Z">>}
    \cup {<<c, c>> : c \in Capitals}
\* upper is lower written in capitals, letter by letter.
IsUpperCaseOf(upper, lower) ==
    /\ Len(upper) = Len(lower)
    /\ \A i \in 1..Len(lower) : <<lower[i], upper[i]>> \in CasePairs
\* The external API answered the alerts call with an empty feature list.
EmptyFeatureList(s) ==
    /\ Len(replies[s]) = 1
    /\ replies[s][1] = Json([t |-> "object", features |-> Arr(<<>>)])
\* The text of the only Content Block of a success envelope.
TextOf(s) == resp[s].body.env.result.content[1].text

YieldsLocator(outcome) ==
    /\ outcome.kind = "json"
    /\ outcome.doc.t = "object"
    /\ "properties" \in DOMAIN outcome.doc
    /\ outcome.doc.properties.t = "object"
    /\ "forecast" \in DOMAIN outcome.doc.properties
    /\ Truthy(outcome.doc.properties.forecast)

\* C13: within one get_forecast request the two external calls are strictly
\* sequential: at most one call is outstanding, the first call is the points
\* lookup, the forecast fetch is issued only after the points lookup completed
\* with a forecast locator (and goes to that locator), and when the points
\* lookup fails or yields no locator the request ends without a forecast fetch.
C13_ForecastStagesSequential ==
    \A s \in Slots :
        IsToolCall(s, "get_forecast")
            => /\ Cardinality(outstanding[s]) <= 1
               /\ Len(calls[s]) <= 2
               /\ outstanding[s] # {}
                      => /\ outstanding[s] = {calls[s][Len(calls[s])]}
                         /\ Len(replies[s]) = Len(calls[s]) - 1
               /\ outstanding[s] = {} => Len(replies[s]) = Len(calls[s])
               /\ Len(calls[s]) >= 1
                      => /\ Len(calls[s][1]) = 5
                         /\ calls[s][1][2] = Lit("/points/")
               /\ Len(calls[s]) = 2
                      => /\ Len(replies[s]) >= 1
                         /\ YieldsLocator(replies[s][1])
                         /\ calls[s][2] = <<replies[s][1].doc.properties.forecast>>
               /\ (Len(replies[s]) >= 1 /\ ~YieldsLocator(replies[s][1]))
                      => /\ Len(calls[s]) = 1
                         /\ Responded(s)
C13_Witness ==
    \E s \in Slots :
        /\ IsToolCall(s, "get_forecast")
        /\ pc[s] = "await_forecast"
        /\ Len(calls[s]) = 2
        /\ Len(replies[s]) = 1
        /\ outstanding[s] = {<<ForecastUrl>>}

\* What slot s holds of its request: how far the handler got and what it did.
Handling(s) ==
    [pc |-> pc[s], resp |-> resp[s], outstanding |-> outstanding[s],
     calls |-> calls[s], caught |-> caught[s]]
\* Two requests that are the same and met the same results of their own
\* external calls are handled the same, whatever else ran before or beside them.
SameInSameOut ==
    \A s1 \in Slots, s2 \in Slots :
        (pc[s1] # "idle" /\ pc[s2] # "idle"
            /\ req[s1] = req[s2] /\ replies[s1] = replies[s2])
            => Handling(s1) = Handling(s2)
\* tools/list answers with the catalog of exactly get_alerts and get_forecast.
CatalogOfTwo ==
    \A s \in Slots :
        (Responded(s) /\ Destructured(s) /\ methodOf(req[s]) = Lit("tools/list"))
            => /\ HasEnvelope(s)
               /\ resp[s].body.env.error = Undef
               /\ Len(resp[s].body.env.result.tools) = 2
               /\ resp[s].body.env.result.tools[1].name = "get_alerts"
               /\ resp[s].body.env.result.tools[2].name = "get_forecast"
               /\ resp[s].body.env.id = idOf(req[s])
\* A step of one request leaves every other request in flight as it was.
OneSlotSteps ==
    \E s \in Slots :
        \A o \in Slots \ {s} :
            /\ pc'[o] = pc[o] /\ req'[o] = req[o] /\ resp'[o] = resp[o]
            /\ outstanding'[o] = outstanding[o] /\ calls'[o] = calls[o]
            /\ replies'[o] = replies[o] /\ caught'[o] = caught[o]

\* C14: handling is stateless and isolated: under every interleaving of the
\* requests in flight, how a request is handled and answered is determined by
\* the request and the results of its own external calls alone, a step of one
\* request changes nothing of another, and tools/list returns the same catalog
\* of exactly two tools every time.
C14_StatelessIsolated ==
    /\ [](SameInSameOut /\ CatalogOfTwo)
    /\ [][OneSlotSteps]_vars
C14_Witness ==
    \E s1 \in Slots, s2 \in Slots :
        /\ s1 # s2
        /\ IsToolCall(s1, "get_alerts") /\ Responded(s1)
        /\ req[s2] = req[s1] /\ replies[s2] = replies[s1] /\ Responded(s2)
        /\ Len(replies[s1]) = 1
        /\ resp[s1] = resp[s2]

====
